---- MODULE Spec2Model ----
(***************************************************************************)
(* Server Monitoring API (backend/main.py) and its Portainer client        *)
(* (backend/portainer_client.py): the in-memory report store, the machine  *)
(* registry, staleness, the shared-key check and the orchestration proxy.  *)
(*                                                                         *)
(* Strings that the code only copies or compares are TLA+ strings.         *)
(* Strings that the code rewrites (the Authorization header, the template  *)
(* file content) are sequences of atoms, so that replace() and strip() are *)
(* computed.  An Optional[str] is a sequence of length 0 (None) or 1.      *)
(***************************************************************************)
EXTENDS Integers, Sequences, FiniteSets, TLC

VARIABLES
    server_data,        \* main.py:30   alias -> stored server record
    machine_registry,   \* main.py:31   machine id -> Machine entry
    now,                \* datetime.now(timezone.utc), in seconds
    env,                \* main.py:26-27 PORTAINER_URL, PORTAINER_API_KEY
    started,            \* whether startup_event has run
    portainer_client,   \* portainer_client.py:296 _portainer_client, <<>> = None
    upstream,           \* the external Portainer: template file, endpoint
    tasks,              \* request coroutines suspended on the event loop
    last                \* the request handled last and its response

vars == <<server_data, machine_registry, now, env, started,
          portainer_client, upstream, tasks, last>>

-----------------------------------------------------------------------------
(* Bounds *)

MaxTime == 3
MaxContainers == 2
MaxHeaderLen == 3
MaxTasks == 2
MaxParts == 2
MaxEnvVars == 2

(* Configuration *)

STALE_THRESHOLD_SECONDS == 2

\* API_KEY, as atoms.  "B" is the substring "Bearer ", " " is white space.
API_KEY == <<"s", "k">>

None == <<>>

-----------------------------------------------------------------------------
(* Generic helpers *)

\* d[k] = v of a Python dict (insert or overwrite).
Put(d, k, v) == [x \in DOMAIN d \cup {k} |-> IF x = k THEN v ELSE d[x]]

\* del d[k] for every k in ks.
Drop(d, ks) == [x \in DOMAIN d \ ks |-> d[x]]

EmptyDict == [x \in {} |-> x]

SeqsUpTo(S, n) == UNION {[1..k -> S] : k \in 0..n}

-----------------------------------------------------------------------------
(* Helper functions of main.py *)

\* The faulty variant compares with >= instead of >.
is_server_stale_ge(last_update) == now - last_update >= STALE_THRESHOLD_SECONDS

\* received_at is always written by isoformat(), so the parse never fails.
is_server_stale(last_update) == now - last_update > STALE_THRESHOLD_SECONDS

\* str.replace("Bearer ", ""): every occurrence is removed.
RemoveBearer(h) == SelectSeq(h, LAMBDA c : c # "B")

RECURSIVE LStrip(_)
LStrip(s) == IF s # <<>> /\ Head(s) = " " THEN LStrip(Tail(s)) ELSE s

RECURSIVE RStrip(_)
RStrip(s) ==
    IF s # <<>> /\ s[Len(s)] = " " THEN RStrip(SubSeq(s, 1, Len(s) - 1)) ELSE s

\* str.strip()
Strip(s) == RStrip(LStrip(s))

\* authorization: <<>> for a missing header, else <<value>>.
verify_api_key(authorization) ==
    IF authorization = None \/ authorization[1] = <<>>
    THEN FALSE
    ELSE Strip(RemoveBearer(authorization[1])) = API_KEY

-----------------------------------------------------------------------------
(* Report ingestion *)

MachineId(server_alias, name) == server_alias \o "-" \o name

ServerRecord(report) ==
    [server_alias |-> report.server_alias,
     hostname     |-> report.hostname,
     ip           |-> report.ip,
     containers   |-> report.containers,
     machine_type |-> report.machine_type,
     group        |-> report.group,
     os           |-> report.os,
     labels       |-> report.labels,
     received_at  |-> now,
     status       |-> "ok"]

\* The faulty variant updates an existing entry in place and keeps its type and status.
HostMachineKeep(report) ==
    IF report.server_alias \in DOMAIN machine_registry
    THEN [machine_registry[report.server_alias] EXCEPT
             !.group = report.group, !.ip = report.ip, !.os = report.os,
             !.labels = report.labels]
    ELSE [id |-> report.server_alias, alias |-> report.server_alias,
          type |-> report.machine_type, group |-> report.group,
          parent |-> None, ip |-> report.ip, os |-> report.os,
          labels |-> report.labels, status |-> "online"]

HostMachine(report) ==
    [id     |-> report.server_alias,
     alias  |-> report.server_alias,
     type   |-> report.machine_type,
     group  |-> report.group,
     parent |-> None,
     ip     |-> report.ip,
     os     |-> report.os,
     labels |-> report.labels,
     status |-> "online"]

\* The faulty variant takes any state but "exited" for running.
ContainerStatusLax(state) == IF state = "exited" THEN "offline" ELSE "online"

ContainerStatus(state) == IF state = "running" THEN "online" ELSE "offline"

ContainerMachine(report, container) ==
    [id     |-> MachineId(report.server_alias, container.name),
     alias  |-> container.name,
     type   |-> "container",
     group  |-> report.group,
     parent |-> <<report.server_alias>>,
     ip     |-> report.ip,
     os     |-> container.image,
     labels |-> <<"container", container.state>>,
     status |-> ContainerStatus(container.state)]

\* The faulty variant first prunes the alias's entries of containers no longer listed.
RECURSIVE RegisterFrom(_, _, _)
RegisterFrom(reg, report, cs) ==
    IF cs = <<>> THEN reg
    ELSE RegisterFrom(
            Put(reg, MachineId(report.server_alias, Head(cs).name),
                ContainerMachine(report, Head(cs))),
            report, Tail(cs))

RegisterContainersPruning(reg, report, cs) ==
    RegisterFrom(
        Drop(reg, {m \in DOMAIN reg : reg[m].parent = <<report.server_alias>>}),
        report, cs)

\* for container in report.containers: machine_registry[container_id] = {...}
RECURSIVE RegisterContainers(_, _, _)
RegisterContainers(reg, report, cs) ==
    IF cs = <<>> THEN reg
    ELSE RegisterContainers(
            Put(reg, MachineId(report.server_alias, Head(cs).name),
                ContainerMachine(report, Head(cs))),
            report, Tail(cs))

Response(op, code, auth, arg, body, calls) ==
    [op |-> op, code |-> code, auth |-> auth, arg |-> arg, body |-> body,
     calls |-> calls, at |-> now]

ProxyUnchanged == UNCHANGED <<env, started, portainer_client, upstream, tasks>>

\* POST /api/report
receive_report(authorization, report) ==
    /\ started
    /\ IF ~verify_api_key(authorization)
       THEN /\ last' = Response("report", 401, authorization, report, None, <<>>)
            /\ UNCHANGED <<server_data, machine_registry>>
       ELSE /\ server_data' =
                 Put(server_data, report.server_alias, ServerRecord(report))
            /\ machine_registry' =
                 RegisterContainers(
                     Put(machine_registry, report.server_alias, HostMachine(report)),
                     report, report.containers)
            /\ last' = Response("report", 200, authorization, report,
                                server_data'[report.server_alias].received_at, <<>>)
    /\ UNCHANGED now
    /\ ProxyUnchanged

-----------------------------------------------------------------------------
(* Reads *)

ServerStatusOf(data) == IF is_server_stale(data.received_at) THEN "down" ELSE "ok"

\* GET /api/status: data["status"] is written, then projected.
get_status ==
    /\ started
    /\ server_data' = [a \in DOMAIN server_data |->
                          [server_data[a] EXCEPT !.status = ServerStatusOf(server_data[a])]]
    /\ last' = Response("status", 200, None, None,
                        [a \in DOMAIN server_data |-> server_data'[a].status], <<>>)
    /\ UNCHANGED <<machine_registry, now>>
    /\ ProxyUnchanged

\* The faulty variant re-derives the status of every entry that has a server record.
MachineStatusAnyType(machine_id, data) ==
    IF machine_id \in DOMAIN server_data
    THEN IF is_server_stale(server_data[machine_id].received_at)
         THEN "offline" ELSE "online"
    ELSE data.status

MachineStatus(machine_id, data) ==
    IF data.type = "host" /\ machine_id \in DOMAIN server_data
    THEN IF is_server_stale(server_data[machine_id].received_at)
         THEN "offline" ELSE "online"
    ELSE data.status

\* GET /api/machines: data["status"] is written in the registry itself.
get_machines ==
    /\ started
    /\ machine_registry' = [m \in DOMAIN machine_registry |->
                               [machine_registry[m] EXCEPT
                                   !.status = MachineStatus(m, machine_registry[m])]]
    /\ last' = Response("machines", 200, None, None, machine_registry', <<>>)
    /\ UNCHANGED <<server_data, now>>
    /\ ProxyUnchanged

\* The faulty variant looks the host up in the registry and answers an id
\* without a server record with an empty list.
get_containers_by_registry(host) ==
    /\ started
    /\ last' = IF host \notin DOMAIN machine_registry
               THEN Response("containers", 404, None, host, None, <<>>)
               ELSE Response("containers", 200, None, host,
                             IF host \in DOMAIN server_data
                             THEN server_data[host].containers ELSE <<>>, <<>>)
    /\ UNCHANGED <<server_data, machine_registry, now>>
    /\ ProxyUnchanged

\* GET /api/docker/{host}/containers
get_containers(host) ==
    /\ started
    /\ last' = IF host \notin DOMAIN server_data
               THEN Response("containers", 404, None, host, None, <<>>)
               ELSE Response("containers", 200, None, host,
                             server_data[host].containers, <<>>)
    /\ UNCHANGED <<server_data, machine_registry, now>>
    /\ ProxyUnchanged

\* GET /api/hosts
get_hosts ==
    /\ started
    /\ last' = Response("hosts", 200, None, None,
                 [a \in {x \in DOMAIN server_data :
                            server_data[x].machine_type = "host"} |->
                     IF ~is_server_stale(server_data[a].received_at)
                     THEN "online" ELSE "offline"], <<>>)
    /\ UNCHANGED <<server_data, machine_registry, now>>
    /\ ProxyUnchanged

\* GET /
root ==
    /\ started
    /\ last' = Response("root", 200, None, None, Cardinality(DOMAIN server_data), <<>>)
    /\ UNCHANGED <<server_data, machine_registry, now>>
    /\ ProxyUnchanged

-----------------------------------------------------------------------------
(* Delete *)

\* The faulty variant forgets the cascade to the alias's containers.
to_remove_no_cascade(alias) == {mid \in DOMAIN machine_registry : mid = alias}

to_remove(alias) ==
    {mid \in DOMAIN machine_registry :
        mid = alias \/ machine_registry[mid].parent = <<alias>>}

\* DELETE /api/server/{alias}
delete_server(authorization, alias) ==
    /\ started
    /\ IF ~verify_api_key(authorization)
       THEN /\ last' = Response("delete", 401, authorization, alias, None, <<>>)
            /\ UNCHANGED <<server_data, machine_registry>>
       ELSE IF alias \notin DOMAIN server_data
       THEN /\ last' = Response("delete", 404, authorization, alias, None, <<>>)
            /\ UNCHANGED <<server_data, machine_registry>>
       ELSE /\ server_data' = Drop(server_data, {alias})
            /\ machine_registry' = Drop(machine_registry, to_remove(alias))
            /\ last' = Response("delete", 200, authorization, alias, None, <<>>)
    /\ UNCHANGED now
    /\ ProxyUnchanged

\* The clock advances between requests.
Tick ==
    /\ now < MaxTime
    /\ now' = now + 1
    /\ UNCHANGED <<server_data, machine_registry, last>>
    /\ ProxyUnchanged

-----------------------------------------------------------------------------
(* portainer_client.py: the client of the external API *)

\* A JSON value: its type tag and its content.  The keys and the value of a
\* string are atoms; a dict is a sequence of <<key, value>> pairs.  In a text
\* the atom "'" is the double quote.
JNull == [t |-> "null", v |-> <<>>]
JNum == [t |-> "num", v |-> <<>>]
JStr(text) == [t |-> "str", v |-> text]
JList(items) == [t |-> "list", v |-> items]
JDict(pairs) == [t |-> "dict", v |-> pairs]

\* json.dumps without white space: the text of a JSON value.
RECURSIVE Ser(_)
Ser(j) ==
    LET Items[i \in 0..Len(j.v)] ==
            IF i = 0 THEN <<>>
            ELSE Items[i - 1] \o (IF i > 1 THEN <<",">> ELSE <<>>) \o Ser(j.v[i])
        Pairs[i \in 0..Len(j.v)] ==
            IF i = 0 THEN <<>>
            ELSE Pairs[i - 1] \o (IF i > 1 THEN <<",">> ELSE <<>>)
                 \o <<"'", j.v[i][1], "'", ":">> \o Ser(j.v[i][2])
    IN  CASE j.t = "null" -> <<"null">>
          [] j.t = "num"  -> <<"1">>
          [] j.t = "str"  -> <<"'">> \o j.v \o <<"'">>
          [] j.t = "list" -> <<"[">> \o Items[Len(j.v)] \o <<"]">>
          [] j.t = "dict" -> <<"{">> \o Pairs[Len(j.v)] \o <<"}">>

\* The compose text that an App Template may carry as its stackfile.
Stackfile == <<"i", "{", "{", "A", "}", "}">>

Repo(value) == JList(<<JDict(<<<<"repository", value>>>>)>>)

\* The JSON documents a template file may hold.
JsonDocs ==
    {JNum, JList(<<>>), JDict(<<>>), JList(<<JDict(<<>>)>>), JList(<<JNum>>),
     JList(<<JStr(<<"x">>)>>), Repo(JNull), Repo(JDict(<<>>)),
     Repo(JStr(<<"stackfile">>)),
     Repo(JDict(<<<<"stackfile", JStr(Stackfile)>>>>))}

\* json.loads: the value whose text this is, or no value (JSONDecodeError).
Loads(text) == {j \in JsonDocs : Ser(j) = text}

\* x in container, by the type of the container: key of a dict, item of a
\* list, substring of a str; TypeError for a number or null.
Contains(j, key) ==
    CASE j.t = "dict" -> [ok |-> TRUE, value |-> \E i \in DOMAIN j.v : j.v[i][1] = key]
      [] j.t = "list" -> [ok |-> TRUE, value |-> \E i \in DOMAIN j.v : j.v[i] = JStr(<<key>>)]
      [] j.t = "str"  -> [ok |-> TRUE, value |-> \E i \in DOMAIN j.v : j.v[i] = key]
      [] OTHER        -> [ok |-> FALSE, value |-> FALSE]

Lookup(j, key) == j.v[CHOOSE i \in DOMAIN j.v : j.v[i][1] = key][2]

CallOk(route) == route \notin upstream.down

Call(method, route, body) == [method |-> method, route |-> route, body |-> body]

Raised(calls) == [ok |-> FALSE, value |-> None, calls |-> calls]

Returned(value, calls) == [ok |-> TRUE, value |-> value, calls |-> calls]

\* What lines 157-168 make of a file content: the nested stackfile, the
\* content itself, or an uncaught TypeError.
TemplateFileOf(file_content) ==
    LET parsed == Loads(file_content) IN
    IF parsed = {} THEN [ok |-> TRUE, value |-> file_content]
    ELSE LET j == CHOOSE x \in parsed : TRUE IN
         IF ~(j.t = "list" /\ Len(j.v) > 0)
         THEN [ok |-> TRUE, value |-> file_content]
         ELSE LET template_data == j.v[1]
                  hasRepo == Contains(template_data, "repository")
              IN  IF ~hasRepo.ok THEN [ok |-> FALSE, value |-> None]
                  ELSE IF ~hasRepo.value THEN [ok |-> TRUE, value |-> file_content]
                  ELSE IF template_data.t # "dict" THEN [ok |-> FALSE, value |-> None]
                  ELSE LET repo == Lookup(template_data, "repository")
                           hasFile == Contains(repo, "stackfile")
                       IN  IF ~hasFile.ok THEN [ok |-> FALSE, value |-> None]
                           ELSE IF ~hasFile.value
                                THEN [ok |-> TRUE, value |-> file_content]
                           ELSE IF repo.t # "dict" THEN [ok |-> FALSE, value |-> None]
                           ELSE [ok |-> TRUE, value |-> Lookup(repo, "stackfile").v]

get_custom_template_file(template_id) ==
    LET calls == <<Call("GET", "file", None)>> IN
    IF ~CallOk("file") THEN Raised(calls)
    ELSE LET r == TemplateFileOf(upstream.file) IN
         IF r.ok THEN Returned(r.value, calls) ELSE Raised(calls)

get_endpoint(endpoint_id) ==
    LET calls == <<Call("GET", "endpoint", None)>> IN
    IF ~CallOk("endpoint") THEN Raised(calls) ELSE Returned(upstream.endpoint, calls)

\* The faulty variant reads the last snapshot instead of the first.
IsSwarmLast(endpoint) ==
    IF "Snapshots" \in DOMAIN endpoint /\ endpoint["Snapshots"] # <<>>
    THEN LET snapshot == endpoint["Snapshots"][Len(endpoint["Snapshots"])]
         IN  IF "Swarm" \in DOMAIN snapshot THEN snapshot["Swarm"] ELSE FALSE
    ELSE FALSE

\* Line 219: the Swarm flag of the first snapshot, False without one.
IsSwarm(endpoint) ==
    IF "Snapshots" \in DOMAIN endpoint /\ endpoint["Snapshots"] # <<>>
    THEN LET snapshot == endpoint["Snapshots"][1]
         IN  IF "Swarm" \in DOMAIN snapshot THEN snapshot["Swarm"] ELSE FALSE
    ELSE FALSE

\* The faulty variant replaces the first occurrence only.
StrReplaceFirst(s, old, new) ==
    IF \E i \in 1..(Len(s) - Len(old) + 1) : SubSeq(s, i, i + Len(old) - 1) = old
    THEN LET i == CHOOSE k \in 1..(Len(s) - Len(old) + 1) :
                    /\ SubSeq(s, k, k + Len(old) - 1) = old
                    /\ \A m \in 1..(k - 1) : SubSeq(s, m, m + Len(old) - 1) # old
         IN  SubSeq(s, 1, i - 1) \o new \o SubSeq(s, i + Len(old), Len(s))
    ELSE s

\* str.replace(old, new) for a non-empty old: left to right, no overlap.
RECURSIVE StrReplace(_, _, _)
StrReplace(s, old, new) ==
    IF Len(s) < Len(old) THEN s
    ELSE IF SubSeq(s, 1, Len(old)) = old
         THEN new \o StrReplace(SubSeq(s, Len(old) + 1, Len(s)), old, new)
         ELSE <<Head(s)>> \o StrReplace(Tail(s), old, new)

Placeholder(name) == <<"{", "{">> \o name \o <<"}", "}">>

\* Lines 222-229: the loop over env_vars (None is <<>>, which is skipped too).
RECURSIVE EnvLoop(_, _, _)
EnvLoop(env_vars, env_list, file_content) ==
    IF env_vars = <<>> THEN [env |-> env_list, content |-> file_content]
    ELSE LET env_var == Head(env_vars) IN
         IF "name" \in DOMAIN env_var /\ "value" \in DOMAIN env_var
         THEN EnvLoop(Tail(env_vars),
                      Append(env_list, [name |-> env_var["name"],
                                        value |-> env_var["value"]]),
                      StrReplace(file_content, Placeholder(env_var["name"]),
                                 env_var["value"]))
         ELSE EnvLoop(Tail(env_vars), env_list, file_content)

deploy_stack_from_template(name, template_id, endpoint_id, env_vars) ==
    LET file == get_custom_template_file(template_id) IN
    IF ~file.ok THEN Raised(file.calls)
    ELSE
    LET endpoint == get_endpoint(endpoint_id) IN
    IF ~endpoint.ok THEN Raised(file.calls \o endpoint.calls)
    ELSE
    LET is_swarm == IsSwarm(endpoint.value)
        done == EnvLoop(env_vars, <<>>, file.value)
        payload == [name |-> name, stackFileContent |-> done.content,
                    env |-> done.env]
        url == IF is_swarm THEN "create/swarm" ELSE "create/standalone"
        calls == file.calls \o endpoint.calls \o <<Call("POST", url, payload)>>
    IN  IF ~CallOk("create") THEN Raised(calls) ELSE Returned(name, calls)

\* One request and its raise_for_status().
Fetch(method, route) ==
    IF CallOk(route) THEN Returned(route, <<Call(method, route, None)>>)
    ELSE Raised(<<Call(method, route, None)>>)

\* get_custom_template: the enrichment from the file is best effort.
get_custom_template(template_id) ==
    LET template == Fetch("GET", "template") IN
    IF ~template.ok THEN template
    ELSE Returned("template", template.calls \o <<Call("GET", "file", None)>>)

\* health_check: any exception of get_status is swallowed.
health_check ==
    LET r == Fetch("GET", "status") IN Returned(r.ok, r.calls)

-----------------------------------------------------------------------------
(* main.py: the Portainer endpoints *)

StoreUnchanged == UNCHANGED <<server_data, machine_registry, now>>

Configured == env.PORTAINER_URL # "" /\ env.PORTAINER_API_KEY # ""

\* The faulty variant creates the client from the URL alone.
ClientAtStartupUrlOnly ==
    IF env.PORTAINER_URL # ""
    THEN <<[url |-> env.PORTAINER_URL, api_key |-> env.PORTAINER_API_KEY]>>
    ELSE portainer_client

\* Lines 460-461 and init_portainer_client.
ClientAtStartup ==
    IF Configured
    THEN <<[url |-> env.PORTAINER_URL, api_key |-> env.PORTAINER_API_KEY]>>
    ELSE portainer_client

startup_event ==
    /\ ~started
    /\ started' = TRUE
    /\ portainer_client' = ClientAtStartup
    /\ last' = Response("startup", 0, None, None, None,
                        IF portainer_client' # None THEN health_check.calls ELSE <<>>)
    /\ UNCHANGED <<env, upstream, tasks>>
    /\ StoreUnchanged

\* get_portainer_client()
get_portainer_client == portainer_client

Unavailable(op, auth, arg) == Response(op, 503, auth, arg, "Portainer not configured", <<>>)

\* GET /api/portainer/status
portainer_status ==
    /\ started
    /\ last' = IF get_portainer_client = None
               THEN Unavailable("portainer_status", None, None)
               ELSE Response("portainer_status", 200, None, None,
                             IF health_check.value THEN "connected" ELSE "disconnected",
                             health_check.calls)
    /\ UNCHANGED <<env, started, portainer_client, upstream, tasks>>
    /\ StoreUnchanged

\* A GET endpoint that passes one client call through: 500 when it raises.
ProxyGet(op, arg, result) ==
    /\ started
    /\ last' = IF get_portainer_client = None THEN Unavailable(op, None, arg)
               ELSE IF result.ok
                    THEN Response(op, 200, None, arg, result.value, result.calls)
                    ELSE Response(op, 500, None, arg, None, result.calls)
    /\ UNCHANGED <<env, started, portainer_client, upstream, tasks>>
    /\ StoreUnchanged

\* GET /api/portainer/endpoints
get_portainer_endpoints == ProxyGet("endpoints", None, Fetch("GET", "endpoints"))

\* GET /api/portainer/templates
get_portainer_templates == ProxyGet("templates", None, Fetch("GET", "templates"))

\* GET /api/portainer/templates/{template_id}
get_portainer_template(template_id) ==
    ProxyGet("template", template_id, get_custom_template(template_id))

\* GET /api/portainer/stacks
get_portainer_stacks == ProxyGet("stacks", None, Fetch("GET", "stacks"))

\* The response of POST /api/portainer/deploy.
DeployResponse(authorization, request) ==
    IF ~verify_api_key(authorization)
    THEN Response("deploy", 401, authorization, request, None, <<>>)
    ELSE IF get_portainer_client = None
    THEN Unavailable("deploy", authorization, request)
    ELSE LET result == deploy_stack_from_template(
                           request.name, request.template_id,
                           request.endpoint_id, request.env_vars)
         IN  IF result.ok
             THEN Response("deploy", 200, authorization, request,
                           result.value, result.calls)
             ELSE Response("deploy", 500, authorization, request, None, result.calls)

\* POST /api/portainer/deploy
deploy_stack(authorization, request) ==
    /\ started
    /\ last' = DeployResponse(authorization, request)
    /\ UNCHANGED <<env, started, portainer_client, upstream, tasks>>
    /\ StoreUnchanged

\* DELETE /api/portainer/stacks/{stack_id}
delete_portainer_stack(authorization, stack_id) ==
    /\ started
    /\ last' = IF ~verify_api_key(authorization)
               THEN Response("delete_stack", 401, authorization, stack_id, None, <<>>)
               ELSE IF get_portainer_client = None
               THEN Unavailable("delete_stack", authorization, stack_id)
               ELSE LET result == Fetch("DELETE", "stack") IN
                    IF result.ok
                    THEN Response("delete_stack", 200, authorization, stack_id,
                                  None, result.calls)
                    ELSE Response("delete_stack", 500, authorization, stack_id,
                                  None, result.calls)
    /\ UNCHANGED <<env, started, portainer_client, upstream, tasks>>
    /\ StoreUnchanged

-----------------------------------------------------------------------------
(* The report store: requests handled one after another *)

Aliases == {"a", "a-b"}
Names == {"b"}
ContainerStates == {"running", "exited"}
IPs == {"10.0.0.1"}
MachineTypes == {"host", "vm"}

ContainersOf(names, states) == [name : names, image : {"img"}, state : states]

ReportsOf(aliases, ips, types, containerLists) ==
    [server_alias : aliases, hostname : {"h"}, ip : ips, machine_type : types,
     group : {"default"}, os : {"Unknown"}, labels : {<<>>},
     containers : containerLists]

\* Container lists whose names are pairwise distinct, as a Docker host has them.
DistinctLists(cs) ==
    {l \in SeqsUpTo(cs, Cardinality({c.name : c \in cs})) :
        \A i, j \in 1..Len(l) : l[i].name = l[j].name => i = j}

Reports ==
    ReportsOf(Aliases, IPs, MachineTypes,
              DistinctLists(ContainersOf(Names, ContainerStates)))

\* "Bearer <key>"
BearerKey == <<<<"B">> \o API_KEY>>

NotConfigured == [PORTAINER_URL |-> "", PORTAINER_API_KEY |-> ""]

NoUpstream == [file |-> <<>>, endpoint |-> EmptyDict, down |-> {}]

Init ==
    /\ server_data = EmptyDict
    /\ machine_registry = EmptyDict
    /\ now = 0
    /\ env = NotConfigured
    /\ started = TRUE
    /\ portainer_client = None
    /\ upstream = NoUpstream
    /\ tasks = {}
    /\ last = Response("startup", 0, None, None, None, <<>>)

Next ==
    \/ \E r \in Reports : receive_report(BearerKey, r)
    \/ get_status
    \/ get_machines
    \/ \E host \in Aliases : get_containers(host)
    \/ get_hosts
    \/ root
    \/ \E alias \in Aliases : delete_server(BearerKey, alias)
    \/ Tick

Spec == Init /\ [][Next]_vars

-----------------------------------------------------------------------------
(* Claims about the report store *)

Accepted(op) == last.op = op /\ last.code = 200

Age(alias) == last.at - server_data[alias].received_at

\* C1: a status read at time t shows "ok" for a server whose latest accepted
\* report is S seconds old or younger and "down" for an older one, whatever
\* the stored status was; an accepted report stamps the record with the time
\* of its arrival, which makes the server "ok" again.
C1_StatusFollowsAge ==
    /\ Accepted("status") =>
          /\ DOMAIN last.body = DOMAIN server_data
          /\ \A a \in DOMAIN server_data :
                /\ Age(a) <= STALE_THRESHOLD_SECONDS => last.body[a] = "ok"
                /\ Age(a) > STALE_THRESHOLD_SECONDS => last.body[a] = "down"
    /\ Accepted("report") =>
          /\ server_data[last.arg.server_alias].received_at = last.at
          /\ server_data[last.arg.server_alias].status = "ok"

\* One read shows a server down at age S + 1 and another ok at age S exactly.
C1_Witness ==
    /\ Accepted("status")
    /\ \E a, b \in DOMAIN server_data :
          /\ Age(a) = STALE_THRESHOLD_SECONDS + 1 /\ last.body[a] = "down"
          /\ Age(b) = STALE_THRESHOLD_SECONDS /\ last.body[b] = "ok"

Removed(alias) ==
    {m \in DOMAIN machine_registry :
        m = alias \/ machine_registry[m].parent = <<alias>>}

\* C2: a successful delete of alias A removes A's server record and every
\* Machine entry whose id is A or whose parent is A, and leaves every other
\* server record and Machine entry exactly as it was.
C2_DeleteCascadesAndFrames ==
    /\ [](Accepted("delete") =>
            /\ last.arg \notin DOMAIN server_data
            /\ \A m \in DOMAIN machine_registry :
                  m # last.arg /\ machine_registry[m].parent # <<last.arg>>)
    /\ [][\A A \in DOMAIN server_data : A \notin DOMAIN server_data' =>
            /\ DOMAIN server_data' = DOMAIN server_data \ {A}
            /\ \A x \in DOMAIN server_data' : server_data'[x] = server_data[x]
            /\ DOMAIN machine_registry' = DOMAIN machine_registry \ Removed(A)
            /\ \A m \in DOMAIN machine_registry' :
                  machine_registry'[m] = machine_registry[m]]_vars

\* "a" was deleted with its container entry while "a-b" and its container stay.
C2_Witness ==
    /\ Accepted("delete") /\ last.arg = "a"
    /\ DOMAIN server_data = {"a-b"}
    /\ DOMAIN machine_registry = {"a-b", "a-b-b"}

\* C4: after an accepted report the store holds, under the report's alias, a
\* server record and a Machine entry that carry the fields of that report and
\* nothing of an earlier one.
C4_LastWriteWins ==
    Accepted("report") =>
        LET r == last.arg
            A == r.server_alias
        IN  /\ A \in DOMAIN server_data /\ A \in DOMAIN machine_registry
            /\ server_data[A] =
                 [server_alias |-> A, hostname |-> r.hostname, ip |-> r.ip,
                  containers |-> r.containers, machine_type |-> r.machine_type,
                  group |-> r.group, os |-> r.os, labels |-> r.labels,
                  received_at |-> last.at, status |-> "ok"]
            /\ machine_registry[A] =
                 [id |-> A, alias |-> A, type |-> r.machine_type,
                  group |-> r.group, parent |-> None, ip |-> r.ip, os |-> r.os,
                  labels |-> r.labels, status |-> "online"]

\* A second report of "a", of another machine_type and without the container
\* that its first report registered.
C4_Witness ==
    /\ Accepted("report") /\ last.arg.server_alias = "a"
    /\ last.arg.containers = <<>> /\ last.arg.machine_type = "vm"
    /\ "a-b" \in DOMAIN machine_registry
    /\ machine_registry["a-b"].parent = <<"a">>

StatusAtIngest(data) ==
    IF data.type = "container"
    THEN IF data.labels[2] = "running" THEN "online" ELSE "offline"
    ELSE "online"

StatusByAge(alias) ==
    IF Age(alias) > STALE_THRESHOLD_SECONDS THEN "offline" ELSE "online"

\* C6 as stated: in a machine listing, the own entry of a reporting server
\* (its id is the alias; container entries are the other entries) shows offline
\* iff that server's report is older than the threshold, and every other
\* entry shows the status stored at ingest.
C6_AsStated ==
    Accepted("machines") =>
        \A m \in DOMAIN last.body :
            last.body[m].status =
                IF m \in DOMAIN server_data /\ last.body[m].type # "container"
                THEN StatusByAge(m) ELSE StatusAtIngest(last.body[m])

\* C6, amended: in a machine listing, an entry of type "host" whose id has a
\* server record shows offline iff that record is older than the threshold,
\* recomputed on every read; every other entry (a container entry, or the
\* entry of a server that reported another machine_type) shows the status
\* stored at ingest, however old the report.
C6_HostStatusFollowsAge ==
    Accepted("machines") =>
        /\ last.body = machine_registry
        /\ \A m \in DOMAIN last.body :
              last.body[m].status =
                  IF last.body[m].type = "host" /\ m \in DOMAIN server_data
                  THEN StatusByAge(m) ELSE StatusAtIngest(last.body[m])

\* A stale host is listed offline while its running container is listed
\* online, and a fresh host is listed online.
C6_Witness ==
    /\ Accepted("machines")
    /\ \E m, c, f \in DOMAIN last.body :
          /\ last.body[m].type = "host" /\ last.body[m].status = "offline"
          /\ last.body[c].parent = <<m>> /\ last.body[c].status = "online"
          /\ last.body[f].type = "host" /\ last.body[f].status = "online"
          /\ Age(f) = STALE_THRESHOLD_SECONDS

ReportKeys(r) ==
    {r.server_alias} \cup
    {MachineId(r.server_alias, r.containers[i].name) : i \in DOMAIN r.containers}

\* C7: a key leaves the server store or the machine registry only in a
\* successful authenticated delete; an accepted report leaves every entry
\* it does not write (its alias, its listed containers) as it was.
C7_OnlyDeleteRemoves ==
    [][/\ (\/ ~(DOMAIN server_data \subseteq DOMAIN server_data')
           \/ ~(DOMAIN machine_registry \subseteq DOMAIN machine_registry'))
          => /\ last'.op = "delete" /\ last'.code = 200
             /\ verify_api_key(last'.auth)
             /\ last'.arg \in DOMAIN server_data
       /\ (last'.op = "report" /\ last'.code = 200)
          => \A m \in DOMAIN machine_registry \ ReportKeys(last'.arg) :
                /\ m \in DOMAIN machine_registry'
                /\ machine_registry'[m] = machine_registry[m]]_vars

\* "a" reported container b, then reported no container: b's entry remains,
\* with the status of the earlier report.
C7_Witness ==
    /\ Accepted("report") /\ last.arg.server_alias = "a"
    /\ last.arg.containers = <<>>
    /\ now = MaxTime
    /\ "a-b" \in DOMAIN machine_registry
    /\ machine_registry["a-b"].parent = <<"a">>
    /\ machine_registry["a-b"].status = "offline"

-----------------------------------------------------------------------------
(* Ingestion of container lists: any list of containers, names repeated or not *)

RichNames == {"b", "c"}
RichStates == {"running", "exited", "paused"}

RichReports ==
    ReportsOf({"a"}, IPs, {"host"},
              SeqsUpTo(ContainersOf(RichNames, RichStates), MaxContainers))

NextIngest ==
    \/ \E r \in RichReports : receive_report(BearerKey, r)
    \/ get_machines
    \/ delete_server(BearerKey, "a")

SpecIngest == Init /\ [][NextIngest]_vars

ContainerIds(r) ==
    {MachineId(r.server_alias, r.containers[i].name) : i \in DOMAIN r.containers}

\* The entry that container c of report r is registered as.
IsEntryOf(data, r, c) ==
    /\ data.id = MachineId(r.server_alias, c.name)
    /\ data.type = "container"
    /\ data.parent = <<r.server_alias>>
    /\ data.status = "online" <=> c.state = "running"

\* C5 as stated: an accepted report of alias A that lists N containers leaves
\* N container entries, one per listed container, with id A-name, type
\* container, parent A and status online iff that container is running.
C5_AsStated ==
    Accepted("report") =>
        LET r == last.arg IN
        /\ ContainerIds(r) \subseteq DOMAIN machine_registry
        /\ Cardinality(ContainerIds(r)) = Len(r.containers)
        /\ \A i \in DOMAIN r.containers :
              IsEntryOf(machine_registry[MachineId(r.server_alias,
                                                   r.containers[i].name)],
                        r, r.containers[i])

\* The last listed container of each name.
Deciding(r) ==
    {i \in DOMAIN r.containers :
        \A j \in DOMAIN r.containers :
            r.containers[j].name = r.containers[i].name => j <= i}

\* C5, amended: an accepted report of alias A leaves one container entry per
\* distinct container name it lists (N entries when the N names are pairwise
\* distinct), with id A-name, type container, parent A and status online iff
\* the last listed container of that name is running.
C5_OneEntryPerName ==
    Accepted("report") =>
        LET r == last.arg IN
        /\ ContainerIds(r) \subseteq DOMAIN machine_registry
        /\ Cardinality(ContainerIds(r)) =
              Cardinality({r.containers[i].name : i \in DOMAIN r.containers})
        /\ Cardinality(ContainerIds(r)) = Cardinality(Deciding(r))
        /\ \A i \in Deciding(r) :
              IsEntryOf(machine_registry[MachineId(r.server_alias,
                                                   r.containers[i].name)],
                        r, r.containers[i])

\* A report with the most containers the bound allows, of distinct names, one
\* online and one offline.
C5_Witness ==
    /\ Accepted("report")
    /\ Len(last.arg.containers) = MaxContainers
    /\ Cardinality(ContainerIds(last.arg)) >= 2
    /\ \E m, n \in ContainerIds(last.arg) :
          /\ machine_registry[m].status = "online"
          /\ machine_registry[n].status = "offline"

-----------------------------------------------------------------------------
(* The proxy: startup and the Portainer endpoints *)

Configs ==
    [PORTAINER_URL : {"", "https://portainer"}, PORTAINER_API_KEY : {"", "ptr_key"}]

Routes == {"status", "endpoints", "templates", "template", "file", "endpoint",
           "stacks", "create", "stack"}

PlainFile == <<"i", "{", "{", "A", "}", "}">>

SwarmEndpoint == "Snapshots" :> <<"Swarm" :> TRUE>>

SomeRequest ==
    [name |-> "web", template_id |-> 1, endpoint_id |-> 1,
     env_vars |-> <<[name |-> <<"A">>, value |-> <<"1">>]>>]

InitProxy ==
    /\ server_data = EmptyDict
    /\ machine_registry = EmptyDict
    /\ now = 0
    /\ env \in Configs
    /\ started = FALSE
    /\ portainer_client = None
    /\ upstream \in [file : {PlainFile}, endpoint : {EmptyDict, SwarmEndpoint},
                     down : {{}, Routes}]
    /\ tasks = {}
    /\ last = Response("import", 0, None, None, None, <<>>)

NextProxy ==
    \/ startup_event
    \/ portainer_status
    \/ get_portainer_endpoints
    \/ get_portainer_templates
    \/ get_portainer_template(1)
    \/ get_portainer_stacks
    \/ \E h \in {BearerKey, None} : deploy_stack(h, SomeRequest)
    \/ \E h \in {BearerKey, None} : delete_portainer_stack(h, 1)

SpecProxy == InitProxy /\ [][NextProxy]_vars

ProxyOps == {"portainer_status", "endpoints", "templates", "template", "stacks",
             "deploy", "delete_stack"}

ProtectedOps == {"report", "delete", "deploy", "delete_stack"}

\* C9: the client exists only if both the base URL and the API key are
\* configured, it is created by the startup event and never afterwards; without
\* it every proxy operation (for deploy and delete-stack: with the right key)
\* answers 503 "not configured" and calls nothing.
C9_NotConfigured ==
    /\ [](/\ portainer_client # None =>
                /\ started
                /\ env.PORTAINER_URL # "" /\ env.PORTAINER_API_KEY # ""
          /\ (/\ last.op \in ProxyOps
              /\ portainer_client = None
              /\ last.op \in ProtectedOps => verify_api_key(last.auth))
             => /\ last.code = 503
                /\ last.body = "Portainer not configured"
                /\ last.calls = <<>>)
    /\ [][portainer_client' # portainer_client => ~started /\ started']_vars

\* A deploy with the right key is refused while only the URL is configured.
C9_Witness ==
    /\ last.op = "deploy" /\ last.code = 503 /\ verify_api_key(last.auth)
    /\ env.PORTAINER_URL # "" /\ env.PORTAINER_API_KEY = ""
    /\ started /\ portainer_client = None

-----------------------------------------------------------------------------
(* Deployment: one deploy request against any template file and endpoint *)

TextParts == {<<"x">>, Placeholder(<<"A">>), Placeholder(<<"B">>)}

RECURSIVE Flatten(_)
Flatten(parts) == IF parts = <<>> THEN <<>> ELSE Head(parts) \o Flatten(Tail(parts))

TextFiles == {Flatten(parts) : parts \in SeqsUpTo(TextParts, MaxParts)}

TemplateFiles == TextFiles \cup {Ser(j) : j \in JsonDocs}

Endpoints ==
    {EmptyDict, "Snapshots" :> <<>>, "Snapshots" :> <<EmptyDict>>,
     "Snapshots" :> <<"Swarm" :> TRUE>>, "Snapshots" :> <<"Swarm" :> FALSE>>,
     "Snapshots" :> <<"Swarm" :> FALSE, "Swarm" :> TRUE>>}

\* A value may itself hold the placeholder of another variable.
EnvEntries ==
    {[name |-> <<"A">>, value |-> <<"1">>],
     [name |-> <<"A">>, value |-> Placeholder(<<"B">>)],
     [name |-> <<"B">>, value |-> <<"2">>],
     "name" :> <<"A">>}

DeployRequests ==
    [name : {"web"}, template_id : {1}, endpoint_id : {1},
     env_vars : SeqsUpTo(EnvEntries, MaxEnvVars)]

TheClient == <<[url |-> "https://portainer", api_key |-> "ptr_key"]>>

InitDeploy ==
    /\ server_data = EmptyDict
    /\ machine_registry = EmptyDict
    /\ now = 0
    /\ env = [PORTAINER_URL |-> "https://portainer", PORTAINER_API_KEY |-> "ptr_key"]
    /\ started = TRUE
    /\ portainer_client = TheClient
    /\ upstream \in [file : TemplateFiles, endpoint : Endpoints,
                     down : {{}, {"file"}, {"endpoint"}, {"create"}}]
    /\ tasks \in {{r} : r \in DeployRequests}
    /\ last = Response("startup", 0, None, None, None, <<>>)

\* The event loop hands the waiting deploy request to its handler.
serve_deploy ==
    /\ \E request \in tasks :
          /\ last' = DeployResponse(BearerKey, request)
          /\ tasks' = tasks \ {request}
    /\ UNCHANGED <<env, started, portainer_client, upstream>>
    /\ StoreUnchanged

NextDeploy == serve_deploy

SpecDeploy == InitDeploy /\ [][NextDeploy]_vars

\* The text s with the leftmost non-overlapping occurrences of tok replaced
\* by v, position by position.
Substituted(s, tok, v) ==
    LET n == Len(tok)
        IsMatch(i) == i + n - 1 <= Len(s) /\ SubSeq(s, i, i + n - 1) = tok
        Sel[i \in 0..Len(s)] ==
            IF i = 0 THEN FALSE
            ELSE IsMatch(i) /\ \A j \in 1..(i - 1) : j > i - n => ~Sel[j]
        Covered(i) == \E j \in 1..(i - 1) : j > i - n /\ Sel[j]
        Out[i \in 0..Len(s)] ==
            IF i = 0 THEN <<>>
            ELSE Out[i - 1] \o (IF Sel[i] THEN v
                                ELSE IF Covered(i) THEN <<>> ELSE <<s[i]>>)
    IN  Out[Len(s)]

IsPair(e) == "name" \in DOMAIN e /\ "value" \in DOMAIN e

\* The supplied {name, value} pairs, in the order of the request.
SuppliedPairs(env_vars) == SelectSeq(env_vars, IsPair)

\* The text with the pairs applied one after another.
RECURSIVE SubstitutedAll(_, _)
SubstitutedAll(text, pairs) ==
    IF pairs = <<>> THEN text
    ELSE SubstitutedAll(
            Substituted(text, <<"{", "{">> \o Head(pairs)["name"] \o <<"}", "}">>,
                        Head(pairs)["value"]),
            Tail(pairs))

Creations == {i \in DOMAIN last.calls : last.calls[i].method = "POST"}

ReportsSwarm(endpoint) ==
    /\ "Snapshots" \in DOMAIN endpoint
    /\ Len(endpoint["Snapshots"]) >= 1
    /\ "Swarm" \in DOMAIN endpoint["Snapshots"][1]
    /\ endpoint["Snapshots"][1]["Swarm"] = TRUE

\* C10: a deploy that has fetched the template file content and the endpoint
\* sends one stack-creation request, its last call, whose file content is the
\* template file content with every occurrence of {{name}} replaced by value
\* for each supplied pair in turn, whose env list is those pairs, and which goes
\* to the swarm creation endpoint iff the endpoint's first snapshot reports
\* Swarm = true and to the standalone one otherwise, also without a snapshot;
\* it never sends more than one.
C10_Deploy ==
    last.op = "deploy" =>
        /\ Cardinality(Creations) <= 1
        /\ (CallOk("file") /\ CallOk("endpoint") /\ TemplateFileOf(upstream.file).ok)
           => LET post == last.calls[Len(last.calls)]
                  pairs == SuppliedPairs(last.arg.env_vars)
              IN  /\ Creations = {Len(last.calls)}
                  /\ post.route = IF ReportsSwarm(upstream.endpoint)
                                  THEN "create/swarm" ELSE "create/standalone"
                  /\ post.body.name = last.arg.name
                  /\ post.body.env =
                        [i \in DOMAIN pairs |->
                            [name |-> pairs[i]["name"], value |-> pairs[i]["value"]]]
                  /\ post.body.stackFileContent =
                        SubstitutedAll(TemplateFileOf(upstream.file).value, pairs)

\* A swarm deployment whose template holds {{A}} twice, both replaced.
C10_Witness ==
    /\ last.op = "deploy" /\ last.code = 200
    /\ upstream.file = Placeholder(<<"A">>) \o Placeholder(<<"A">>)
    /\ last.arg.env_vars # <<>>
    /\ last.calls[3].route = "create/swarm"
    /\ last.calls[3].body.stackFileContent = <<"1", "1">>

-----------------------------------------------------------------------------
(* The shared key: the protected operations under any Authorization header *)

HeaderAtoms == {"B", " ", "s", "k"}

\* A header value arrives without white space at either end ("B" ends in a
\* space).
AuthHeaders ==
    {None} \cup
    {<<h>> : h \in {x \in SeqsUpTo(HeaderAtoms, MaxHeaderLen) :
                       x # <<>> => Head(x) # " " /\ x[Len(x)] \notin {" ", "B"}}}

AuthReports == ReportsOf({"a"}, IPs, {"host"}, {<<>>})

InitAuth ==
    /\ server_data = EmptyDict
    /\ machine_registry = EmptyDict
    /\ now = 0
    /\ env \in {NotConfigured,
                [PORTAINER_URL |-> "https://portainer", PORTAINER_API_KEY |-> "ptr_key"]}
    /\ started = FALSE
    /\ portainer_client = None
    /\ upstream = [file |-> PlainFile, endpoint |-> EmptyDict, down |-> {}]
    /\ tasks = {}
    /\ last = Response("import", 0, None, None, None, <<>>)

NextAuth ==
    \/ startup_event
    \/ \E h \in AuthHeaders, r \in AuthReports : receive_report(h, r)
    \/ \E h \in AuthHeaders, alias \in {"a", "a-b"} : delete_server(h, alias)
    \/ \E h \in AuthHeaders : deploy_stack(h, SomeRequest)
    \/ \E h \in AuthHeaders : delete_portainer_stack(h, 1)

SpecAuth == InitAuth /\ [][NextAuth]_vars

\* The header is the key or "Bearer " and the key, white space around either.
CarriesKey(authorization) ==
    /\ authorization # None
    /\ LET v == Strip(authorization[1]) IN
          \/ v = API_KEY
          \/ v # <<>> /\ Head(v) = "B" /\ Strip(Tail(v)) = API_KEY

\* C3: a protected operation called without the Authorization header, or with
\* one that carries another key than the configured one, answers 401, leaves
\* the server store and the machine registry as they were and calls nothing.
C3_WrongKeyRejected ==
    [][(last'.op \in ProtectedOps /\ ~CarriesKey(last'.auth))
       => /\ last'.code = 401
          /\ last'.calls = <<>>
          /\ UNCHANGED <<server_data, machine_registry>>]_vars

-----------------------------------------------------------------------------
(* Concurrent requests: coroutines on one event loop *)

\* The statements of receive_report after the key check, in order.
ReportPoints == <<"store", "registry", "containers", "return">>

\* The faulty variant awaits between the write of the server record and the write of
\* the registry.
ReportYieldPointsAwait == {"registry"}

\* The points at which receive_report awaits, where the event loop may run
\* another coroutine: lines 186-227 hold no await.
ReportYieldPoints == {}

\* One statement of receive_report.
ReportStep(pc, sd, mr, report) ==
    CASE pc = "store" ->
            [pc |-> "registry", mr |-> mr,
             sd |-> Put(sd, report.server_alias, ServerRecord(report))]
      [] pc = "registry" ->
            [pc |-> "containers", sd |-> sd,
             mr |-> Put(mr, report.server_alias, HostMachine(report))]
      [] pc = "containers" ->
            [pc |-> "return", sd |-> sd,
             mr |-> RegisterContainers(mr, report, report.containers)]

\* The coroutine runs from pc to its next await or to its return.
RECURSIVE RunReport(_, _, _, _)
RunReport(pc, sd, mr, report) ==
    LET after == ReportStep(pc, sd, mr, report) IN
    IF after.pc = "return" \/ after.pc \in ReportYieldPoints THEN after
    ELSE RunReport(after.pc, after.sd, after.mr, report)

ConcReports ==
    ReportsOf({"a"}, IPs, MachineTypes,
              DistinctLists(ContainersOf(Names, ContainerStates)))

\* A report request arrives with the right key and its coroutine is scheduled.
accept_report(report) ==
    /\ started
    /\ Cardinality(tasks) < MaxTasks
    /\ verify_api_key(BearerKey)
    /\ tasks' = tasks \cup {[id |-> Cardinality(tasks) + 1, report |-> report,
                             pc |-> "store"]}
    /\ UNCHANGED <<server_data, machine_registry, now, last>>
    /\ UNCHANGED <<env, started, portainer_client, upstream>>

\* The event loop resumes one coroutine.
resume(task) ==
    /\ task.pc # "return"
    /\ LET after == RunReport(task.pc, server_data, machine_registry, task.report)
       IN  /\ server_data' = after.sd
           /\ machine_registry' = after.mr
           /\ tasks' = (tasks \ {task}) \cup {[task EXCEPT !.pc = after.pc]}
           /\ last' = IF after.pc = "return"
                      THEN Response("report", 200, BearerKey, task.report,
                                    after.sd[task.report.server_alias].received_at,
                                    <<>>)
                      ELSE last
    /\ UNCHANGED <<now, env, started, portainer_client, upstream>>

\* get_machines holds no await either: it runs between two resumptions.
read_machines ==
    /\ started
    /\ machine_registry' = [m \in DOMAIN machine_registry |->
                               [machine_registry[m] EXCEPT
                                   !.status = MachineStatus(m, machine_registry[m])]]
    /\ last' = Response("machines", 200, None, None, machine_registry', <<>>)
    /\ UNCHANGED <<server_data, now, tasks>>
    /\ UNCHANGED <<env, started, portainer_client, upstream>>

NextConc ==
    \/ \E r \in ConcReports : accept_report(r)
    \/ \E t \in tasks : resume(t)
    \/ read_machines

SpecConc == Init /\ [][NextConc]_vars

\* The store after the reports of seq are ingested one after another.
RECURSIVE Serial(_, _, _)
Serial(seq, sd, mr) ==
    IF seq = <<>> THEN [sd |-> sd, mr |-> mr]
    ELSE LET r == Head(seq)
             A == r.server_alias
         IN  Serial(Tail(seq),
                    Put(sd, A, [server_alias |-> A, hostname |-> r.hostname,
                                ip |-> r.ip, containers |-> r.containers,
                                machine_type |-> r.machine_type, group |-> r.group,
                                os |-> r.os, labels |-> r.labels,
                                received_at |-> now, status |-> "ok"]),
                    RegisterContainers(
                        Put(mr, A, [id |-> A, alias |-> A, type |-> r.machine_type,
                                    group |-> r.group, parent |-> None, ip |-> r.ip,
                                    os |-> r.os, labels |-> r.labels,
                                    status |-> "online"]),
                        r, r.containers))

Orders == {o \in [1..Cardinality(tasks) -> tasks] :
              \A i, j \in DOMAIN o : o[i] = o[j] => i = j}

\* The registry holds the own entry and the container entries of the report
\* that the server record of the alias holds.
SameReport(A) ==
    /\ A \in DOMAIN machine_registry
    /\ machine_registry[A].type = server_data[A].machine_type
    /\ machine_registry[A].parent = None
    /\ \A i \in DOMAIN server_data[A].containers :
          LET c == server_data[A].containers[i]
              m == MachineId(A, c.name)
          IN  /\ m \in DOMAIN machine_registry
              /\ machine_registry[m].parent = <<A>>
              /\ machine_registry[m].labels = <<"container", c.state>>

\* C8: when the concurrent ingests of one alias have all returned, the store
\* is what one of their serial orders leaves; and in no state that a read may
\* run in does the store hold the server record of one report with the Machine
\* entries of another, or without them.
C8_IngestsSerialize ==
    /\ (\A t \in tasks : t.pc = "return") =>
          \E o \in Orders :
              LET s == Serial([i \in DOMAIN o |-> o[i].report], EmptyDict, EmptyDict)
              IN  server_data = s.sd /\ machine_registry = s.mr
    /\ \A A \in DOMAIN server_data : SameReport(A)
    /\ last.op = "machines" =>
          \A A \in DOMAIN server_data :
              A \in DOMAIN last.body /\ last.body[A].type = server_data[A].machine_type

\* Two ingests of "a" that differ in machine_type and containers have both
\* returned and the registry was read.
C8_Witness ==
    /\ Cardinality(tasks) = MaxTasks
    /\ \A t \in tasks : t.pc = "return"
    /\ \E t, u \in tasks :
          /\ t.report.machine_type # u.report.machine_type
          /\ t.report.containers # u.report.containers
    /\ last.op = "machines"

-----------------------------------------------------------------------------
(* The template file: any file content behind one configured client *)

InitFile ==
    /\ server_data = EmptyDict
    /\ machine_registry = EmptyDict
    /\ now = 0
    /\ env = [PORTAINER_URL |-> "https://portainer", PORTAINER_API_KEY |-> "ptr_key"]
    /\ started = TRUE
    /\ portainer_client = TheClient
    /\ upstream \in [file : TemplateFiles, endpoint : {EmptyDict, SwarmEndpoint},
                     down : {{}, {"file"}}]
    /\ tasks = {}
    /\ last = Response("startup", 0, None, None, None, <<>>)

\* The client's get_custom_template_file, called on its own: what it returned,
\* or that it raised.
template_file ==
    /\ get_portainer_client # None
    /\ LET result == get_custom_template_file(1) IN
       last' = Response("template_file", 0, None, 1,
                        [ok |-> result.ok, value |-> result.value], result.calls)
    /\ UNCHANGED <<env, started, portainer_client, upstream, tasks>>
    /\ StoreUnchanged

NextFile ==
    \/ template_file
    \/ get_portainer_template(1)
    \/ deploy_stack(BearerKey, SomeRequest)

SpecFile == InitFile /\ [][NextFile]_vars

HasKey(j, key) == j.t = "dict" /\ \E i \in DOMAIN j.v : j.v[i][1] = key

ValueAt(j, key) == j.v[CHOOSE i \in DOMAIN j.v : j.v[i][1] = key][2]

\* The content is the text of a non-empty JSON array whose first element
\* holds repository.stackfile.
IsAppTemplate(doc) ==
    /\ doc.t = "list" /\ Len(doc.v) > 0
    /\ HasKey(doc.v[1], "repository")
    /\ HasKey(ValueAt(doc.v[1], "repository"), "stackfile")

\* What the file content stands for: the nested stackfile of an App Template,
\* the content itself for anything else.
Expected(file_content) ==
    IF \E doc \in JsonDocs : Ser(doc) = file_content /\ IsAppTemplate(doc)
    THEN LET doc == CHOOSE d \in JsonDocs : Ser(d) = file_content
         IN  ValueAt(ValueAt(doc.v[1], "repository"), "stackfile").v
    ELSE file_content

\* C11: whenever the file is fetched, get_custom_template_file returns the
\* nested repository.stackfile string for a content that parses as a non-empty
\* JSON array whose first element contains repository.stackfile, and the raw
\* content for every other content (non-JSON text, JSON that is not an array,
\* an empty array, an array whose first element has no repository or no
\* stackfile); no content makes it raise.
C11_NeverFailsOnShape ==
    (last.op = "template_file" /\ CallOk("file")) =>
        /\ last.body.ok
        /\ last.body.value = Expected(upstream.file)

-----------------------------------------------------------------------------
(* Claims about the container list of a host *)

\* The stored containers of h are written in this step.
Rewritten(h) ==
    /\ h \in DOMAIN server_data'
    /\ h \in DOMAIN server_data =>
          server_data'[h].containers # server_data[h].containers

\* C12: GET /api/docker/{h}/containers answers 200 with the stored containers
\* of h when h has a server record and 404 when it has none (never reported,
\* deleted since, or an id that is only a container entry of the registry),
\* and it changes neither map; the stored containers of h are those of the
\* most recent accepted report for h, as an accepted report for h stores its
\* list, the stored list is written by nothing else, and the record is dropped
\* only by an accepted delete of h.
C12_ContainersOfLatestReport ==
    /\ []((last.op = "report" /\ last.code = 200) =>
            /\ last.arg.server_alias \in DOMAIN server_data
            /\ server_data[last.arg.server_alias].containers = last.arg.containers)
    /\ [](last.op = "containers" =>
            IF last.arg \in DOMAIN server_data
            THEN last.code = 200 /\ last.body = server_data[last.arg].containers
            ELSE last.code = 404 /\ last.body = None)
    /\ [][/\ (last' # last /\ last'.op = "containers")
             => UNCHANGED <<server_data, machine_registry>>
          /\ \A h \in DOMAIN server_data' :
                Rewritten(h) =>
                    /\ last'.op = "report" /\ last'.code = 200
                    /\ last'.arg.server_alias = h
                    /\ server_data'[h].containers = last'.arg.containers
          /\ \A h \in DOMAIN server_data \ DOMAIN server_data' :
                last'.op = "delete" /\ last'.code = 200 /\ last'.arg = h]_vars

\* The list of "a-b" is asked for while "a-b" is only the container b of "a".
C12_Witness ==
    /\ last.op = "containers" /\ last.code = 404
    /\ last.arg \in DOMAIN machine_registry
    /\ machine_registry[last.arg].type = "container"
    /\ last.arg \notin DOMAIN server_data

-----------------------------------------------------------------------------
(* Claims about the registry as a whole *)

\* C13: after any accepted ingests and deletes, every alias of the server
\* store has a Machine entry under its own id, without a parent, whose ip,
\* group, os and labels are those of the stored server record: an ingest or a
\* delete for one alias never replaces or removes the own entry of another.
C13_OwnEntryKept ==
    \A a \in DOMAIN server_data :
        /\ a \in DOMAIN machine_registry
        /\ machine_registry[a].id = a
        /\ machine_registry[a].parent = None
        /\ machine_registry[a].ip = server_data[a].ip
        /\ machine_registry[a].group = server_data[a].group
        /\ machine_registry[a].os = server_data[a].os
        /\ machine_registry[a].labels = server_data[a].labels

\* C14: after any accepted ingests and deletes the registry holds no orphan:
\* the parent of an entry that has one is an alias of the server store, and
\* the id of an entry that has none is an alias of the server store.
C14_NoOrphan ==
    \A m \in DOMAIN machine_registry :
        IF machine_registry[m].parent # None
        THEN machine_registry[m].parent[1] \in DOMAIN server_data
        ELSE m \in DOMAIN server_data

\* A delete has taken the deleted alias's containers along, among them the
\* entry under the id of a server that remains, while other entries remain.
C14_Witness ==
    /\ Accepted("delete")
    /\ \E a \in DOMAIN server_data :
          /\ a \notin DOMAIN machine_registry
          /\ machine_registry # EmptyDict

====
